---- MODULE Spec2Model ----
(***************************************************************************)
(* Model of app/solver.py: the quiz-chain engine solve_quiz_chain, the     *)
(* page classifier detect_quiz_type, the submit-target resolver            *)
(* build_submit_url and the two type solvers.                              *)
(*                                                                         *)
(* A Python str is a tuple of one-character strings, so that lower(),      *)
(* strip(), rstrip(), `in`, endswith(), urlparse() and int() are computed  *)
(* character by character as the library computes them.                    *)
(***************************************************************************)
EXTENDS Integers, Sequences, FiniteSets, TLC

VARIABLES
    pc,           \* position of solve_quiz_chain, or of the pure function applied
    start_url,    \* argument of solve_quiz_chain
    email,        \* argument of solve_quiz_chain
    secret,       \* argument of solve_quiz_chain
    start_time,   \* solver.py:144
    current_url,  \* solver.py:145, 214
    now,          \* time.time()
    html,         \* solver.py:153, the rendered page
    submit_url,   \* solver.py:160
    quiz_type,    \* solver.py:164
    answer,       \* solver.py:178, 183, 188
    response,     \* solver.py:195, the body of the submission response
    result,       \* solver.py:200
    retval,       \* the value solve_quiz_chain returned
    err,          \* the exception that left solve_quiz_chain
    calls,        \* what the collaborators were asked to do so far
    fetched,      \* the resource the solver downloaded in this iteration
    arg,          \* input of the pure function applied
    ret           \* output of the pure function applied

chainVars == <<start_url, email, secret, start_time, current_url, now, html,
               submit_url, quiz_type, answer, response, result, retval, err,
               calls, fetched>>
fnVars == <<arg, ret>>
vars == <<pc, chainVars, fnVars>>

----------------------------------------------------------------------------
(* Bounds of the model *)

MaxChunks == 3      \* an HTML text given to the classifier has at most this many chunks
MaxOriginLen == 4   \* characters in the text of the .origin element
MaxRows == 4        \* rows of a CSV file
MaxIter == 2        \* next urls the submission server hands out in one chain

----------------------------------------------------------------------------
(* Python str operations *)

Min(S) == CHOOSE x \in S : \A y \in S : x <= y
Max(S) == CHOOSE x \in S : \A y \in S : x >= y

UpperLetters == <<"A","B","C","D","E","F","G","H","I","J","K","L","M",
                  "N","O","P","Q","R","S","T","U","V","W","X","Y","Z">>
LowerLetters == <<"a","b","c","d","e","f","g","h","i","j","k","l","m",
                  "n","o","p","q","r","s","t","u","v","w","x","y","z">>
Digits == <<"0","1","2","3","4","5","6","7","8","9">>
Whitespace == {" ", "\n", "\t", "\r"}

Range(s) == {s[i] : i \in 1..Len(s)}

LowerChar(c) ==
    IF \E i \in 1..Len(UpperLetters) : UpperLetters[i] = c
    THEN LowerLetters[CHOOSE i \in 1..Len(UpperLetters) : UpperLetters[i] = c]
    ELSE c

\* str.lower()
Lower(s) == [i \in 1..Len(s) |-> LowerChar(s[i])]

StartsWithAt(s, sub, i) ==
    /\ i + Len(sub) - 1 <= Len(s)
    /\ \A k \in 1..Len(sub) : s[i + k - 1] = sub[k]

\* sub in s
Contains(s, sub) == \E i \in 1..(Len(s) + 1) : StartsWithAt(s, sub, i)

\* s.endswith(suf)
EndsWith(s, suf) ==
    /\ Len(suf) <= Len(s)
    /\ StartsWithAt(s, suf, Len(s) - Len(suf) + 1)

\* s.strip()
Strip(s) ==
    LET keep == {i \in 1..Len(s) : s[i] \notin Whitespace}
    IN  IF keep = {} THEN <<>> ELSE SubSeq(s, Min(keep), Max(keep))

\* s.rstrip(c)
RStrip(s, c) ==
    LET keep == {i \in 1..Len(s) : s[i] # c}
    IN  IF keep = {} THEN <<>> ELSE SubSeq(s, 1, Max(keep))

\* s.find(one of the characters of set), 0 when there is none
FirstIndex(s, set) ==
    LET hit == {i \in 1..Len(s) : s[i] \in set}
    IN  IF hit = {} THEN 0 ELSE Min(hit)

DigitValue(c) == (CHOOSE i \in 1..Len(Digits) : Digits[i] = c) - 1

RECURSIVE DigitsToInt(_)
DigitsToInt(s) ==
    IF s = <<>> THEN 0
    ELSE 10 * DigitsToInt(SubSeq(s, 1, Len(s) - 1)) + DigitValue(s[Len(s)])

IsDigits(s) == s # <<>> /\ \A i \in 1..Len(s) : s[i] \in Range(Digits)

\* int(s): optional surrounding whitespace, optional sign, decimal digits
ParseInt(s) ==
    LET t == Strip(s)
        signed == t # <<>> /\ t[1] \in {"-", "+"}
        body == IF signed THEN Tail(t) ELSE t
    IN  IF IsDigits(body)
        THEN [ok |-> TRUE,
              value |-> IF signed /\ t[1] = "-" THEN -DigitsToInt(body)
                        ELSE DigitsToInt(body)]
        ELSE [ok |-> FALSE, value |-> 0]

----------------------------------------------------------------------------
(* The texts the model uses *)

S_scrape == <<"s","c","r","a","p","e">>
S_demo_scrape_data == <<"d","e","m","o","-">> \o S_scrape \o <<"-","d","a","t","a">>
S_csv == <<".","c","s","v">>
S_audio == <<"a","u","d","i","o">>
S_submit == <<"/","s","u","b","m","i","t">>
S_hello == <<"h","e","l","l","o","-","f","r","o","m","-","a","g","e","n","t">>
S_http == <<"h","t","t","p">>
S_https == <<"h","t","t","p","s">>
S_empty == <<>>

----------------------------------------------------------------------------
(* detect_quiz_type *)

detect_quiz_type_audio_first(html_text) ==
    LET html_l == Lower(html_text)
    IN  IF Contains(html_l, S_csv) \/ Contains(html_l, S_audio)
        THEN "audio"
        ELSE IF Contains(html_l, S_demo_scrape_data) \/ Contains(html_l, S_scrape)
        THEN "scrape"
        ELSE "generic"

detect_quiz_type(html_text) ==
    LET html_l == Lower(html_text)
    IN  IF Contains(html_l, S_demo_scrape_data) \/ Contains(html_l, S_scrape)
        THEN "scrape"
        ELSE IF Contains(html_l, S_csv) \/ Contains(html_l, S_audio)
        THEN "audio"
        ELSE "generic"

----------------------------------------------------------------------------
(* build_submit_url *)

SchemeChars == Range(UpperLetters) \cup Range(LowerLetters) \cup Range(Digits)
               \cup {"+", "-", "."}

\* the schemes urllib.parse lists in uses_netloc that the model's urls use
UsesNetloc == {S_http, S_https}

\* urllib.parse.urlparse, the scheme and netloc components
urlparse(url) ==
    LET c == FirstIndex(url, {":"})
        hasScheme == /\ c > 1
                     /\ url[1] \in Range(UpperLetters) \cup Range(LowerLetters)
                     /\ \A i \in 1..(c - 1) : url[i] \in SchemeChars
        rest == IF hasScheme THEN SubSeq(url, c + 1, Len(url)) ELSE url
        hasNet == Len(rest) >= 2 /\ rest[1] = "/" /\ rest[2] = "/"
        after == IF hasNet THEN SubSeq(rest, 3, Len(rest)) ELSE <<>>
        d == FirstIndex(after, {"/", "?", "#"})
    IN  [scheme |-> IF hasScheme THEN Lower(SubSeq(url, 1, c - 1)) ELSE <<>>,
         netloc |-> IF d = 0 THEN after ELSE SubSeq(after, 1, d - 1)]

\* urllib.parse.urlunparse((scheme, netloc, "", "", "", ""))
urlunparse(scheme, netloc) ==
    LET withNet == IF netloc # <<>> \/ (scheme # <<>> /\ scheme \in UsesNetloc)
                   THEN <<"/", "/">> \o netloc
                   ELSE <<>>
    IN  IF scheme # <<>> THEN scheme \o <<":">> \o withNet ELSE withNet

NoElement == [present |-> FALSE, text |-> <<>>]
Element(t) == [present |-> TRUE, text |-> t]

build_submit_url_keeps_slashes(page, url) ==
    LET origin_el == page.origin
        origin == IF origin_el.present /\ Strip(origin_el.text) # <<>>
                  THEN Strip(origin_el.text)
                  ELSE urlunparse(urlparse(url).scheme, urlparse(url).netloc)
    IN  origin \o S_submit

build_submit_url(page, url) ==
    LET origin_el == page.origin
        origin == IF origin_el.present /\ Strip(origin_el.text) # <<>>
                  THEN Strip(origin_el.text)
                  ELSE urlunparse(urlparse(url).scheme, urlparse(url).netloc)
    IN  RStrip(origin, "/") \o S_submit

----------------------------------------------------------------------------
(* JSON values: the submission payload, the parsed response, the results *)

JNull == [t |-> "null"]
JStr(s) == [t |-> "str", v |-> s]
JNum(n) == [t |-> "num", v |-> n]
JBool(b) == [t |-> "bool", v |-> b]
JArray(a) == [t |-> "array", v |-> a]
JObject(d) == [t |-> "object", v |-> d]

NoValue == [t |-> "unset"]

Truthy_unless_none(j) ==
    CASE j.t = "null" -> FALSE
      [] j.t = "str" -> TRUE
      [] j.t = "num" -> j.v # 0
      [] j.t = "bool" -> j.v
      [] j.t = "array" -> j.v # <<>>
      [] j.t = "object" -> DOMAIN j.v # {}
      [] OTHER -> FALSE

\* Python truth value of a JSON value
Truthy(j) ==
    CASE j.t = "null" -> FALSE
      [] j.t = "str" -> j.v # <<>>
      [] j.t = "num" -> j.v # 0
      [] j.t = "bool" -> j.v
      [] j.t = "array" -> j.v # <<>>
      [] j.t = "object" -> DOMAIN j.v # {}
      [] OTHER -> FALSE

\* dict.get(key): None when the key is absent
DictGet(d, key) == IF key \in DOMAIN d THEN d[key] ELSE JNull

S_timeout_reason == <<"t","i","m","e","o","u","t"," ","o","r"," ",
                      "m","i","s","s","i","n","g"," ","u","r","l">>

\* solver.py:217
TimeoutResult == JObject([correct |-> JBool(FALSE), reason |-> JStr(S_timeout_reason)])

----------------------------------------------------------------------------
(* solve_scrape_question *)

\* str.splitlines() for "\n" line ends
RECURSIVE SplitLines(_)
SplitLines(s) ==
    LET i == FirstIndex(s, {"\n"})
    IN  IF s = <<>> THEN <<>>
        ELSE IF i = 0 THEN <<s>>
        ELSE <<SubSeq(s, 1, i - 1)>> \o SplitLines(SubSeq(s, i + 1, Len(s)))

\* re.search(r"\d+", line): the leftmost, longest run of digits
DigitRun(line) ==
    LET i == FirstIndex(line, Range(Digits))
        ends == {j \in i..Len(line) : \A k \in i..j : line[k] \in Range(Digits)}
    IN  IF i = 0 THEN [found |-> FALSE, text |-> <<>>]
        ELSE [found |-> TRUE, text |-> SubSeq(line, i, Max(ends))]

\* solver.py:74-83, the loop over the lines of the data page
RECURSIVE ScanLines(_)
ScanLines(lines) ==
    IF lines = <<>> THEN [found |-> FALSE, text |-> <<>>]
    ELSE IF Strip(Head(lines)) = <<>> THEN ScanLines(Tail(lines))
    ELSE IF DigitRun(Head(lines)).found THEN DigitRun(Head(lines))
    ELSE ScanLines(Tail(lines))

\* the first <a> below #question, soup.select_one("#question a")
SelectQuestionLink(page) ==
    LET hit == {i \in 1..Len(page.links) : page.links[i].in_question}
    IN  IF hit = {} THEN [present |-> FALSE, href |-> NoElement]
        ELSE [present |-> TRUE, href |-> page.links[Min(hit)].href]

\* urllib.parse.urljoin for an absolute href or one that starts with "/"
urljoin(base, href) ==
    IF urlparse(href).scheme # <<>> THEN href
    ELSE urlunparse(urlparse(base).scheme, urlparse(base).netloc) \o href

Returned(v, r, g) == [ok |-> TRUE, value |-> v, err |-> "", renders |-> r, gets |-> g]
Raised(e, r, g) == [ok |-> FALSE, value |-> NoValue, err |-> e, renders |-> r, gets |-> g]

solve_scrape_question_lenient(page, url, data_text) ==
    LET link == SelectQuestionLink(page)
        code == ScanLines(SplitLines(data_text))
    IN  IF ~link.present \/ ~link.href.present \/ link.href.text = <<>>
        THEN Raised("ValueError: Scrape target link not found", 0, 0)
        ELSE Returned(JStr(code.text), 1, 0)

\* data_text: the text of the data page the renderer returns for scrape_url
solve_scrape_question(page, url, data_text) ==
    LET link == SelectQuestionLink(page)
        code == ScanLines(SplitLines(data_text))
    IN  IF ~link.present \/ ~link.href.present \/ link.href.text = <<>>
        THEN Raised("ValueError: Scrape target link not found", 0, 0)
        ELSE IF code.found
        THEN Returned(JStr(code.text), 1, 0)
        ELSE Raised("ValueError: Unable to extract secret code", 1, 0)

----------------------------------------------------------------------------
(* solve_audio_csv_question *)

\* A number is kept in halves: 5 is 2.5. Halves are exact in binary floating
\* point, so the float sum of the code is the sum of the halves.
NaN == [num |-> FALSE, halves |-> 0]
Num(h) == [num |-> TRUE, halves |-> h]

\* pd.to_numeric(cell, errors="coerce") for cells of the shape
\* [sign] digits [ "." ("0" | "5") ]; anything else in the model's cells is
\* not a number
to_numeric(cell) ==
    LET signed == cell # <<>> /\ cell[1] \in {"-", "+"}
        body == IF signed THEN Tail(cell) ELSE cell
        dot == FirstIndex(body, {"."})
        whole == IF dot = 0 THEN body ELSE SubSeq(body, 1, dot - 1)
        frac == IF dot = 0 THEN <<>> ELSE SubSeq(body, dot + 1, Len(body))
        mag == 2 * DigitsToInt(whole) + (IF frac = <<"5">> THEN 1 ELSE 0)
    IN  IF IsDigits(whole) /\ frac \in {<<>>, <<"0">>, <<"5">>}
        THEN Num(IF signed /\ cell[1] = "-" THEN -mag ELSE mag)
        ELSE NaN

RECURSIVE SumHalves(_)
SumHalves(series) ==
    IF series = <<>> THEN 0 ELSE Head(series).halves + SumHalves(Tail(series))

\* series[mask]
SelectSeq2(series, mask) ==
    LET RECURSIVE Pick(_)
        Pick(i) == IF i > Len(series) THEN <<>>
                   ELSE IF mask[i] THEN <<series[i]>> \o Pick(i + 1)
                   ELSE Pick(i + 1)
    IN  Pick(1)

\* int(x) of a float: truncation toward zero
IntOfHalves(h) == IF h >= 0 THEN h \div 2 ELSE -((-h) \div 2)

\* the first <a> whose href ends in ".csv", solver.py:98
FindCsvTag(page) ==
    LET hit == {i \in 1..Len(page.links) :
                  /\ page.links[i].href.present
                  /\ page.links[i].href.text # <<>>
                  /\ EndsWith(page.links[i].href.text, S_csv)}
    IN  IF hit = {} THEN NoElement ELSE page.links[Min(hit)].href

csv_answer_above_cutoff(rows, cutoff_el) ==
    LET cut == IF cutoff_el.present THEN ParseInt(cutoff_el.text)
               ELSE [ok |-> TRUE, value |-> 0]
        series == [i \in 1..Len(rows) |-> to_numeric(rows[i][1])]
        mask == [i \in 1..Len(rows) |->
                    series[i].num /\ series[i].halves > 2 * cut.value]
    IN  IF rows = <<>> THEN Raised("EmptyDataError", 0, 1)
        ELSE IF ~cut.ok THEN Raised("ValueError: invalid literal for int()", 0, 1)
        ELSE Returned(JNum(IntOfHalves(SumHalves(SelectSeq2(series, mask)))), 0, 1)

\* solver.py:110-126: rows are the parsed rows of the file, each a tuple of cells
csv_answer(rows, cutoff_el) ==
    LET cut == IF cutoff_el.present THEN ParseInt(cutoff_el.text)
               ELSE [ok |-> TRUE, value |-> 0]
        series == [i \in 1..Len(rows) |-> to_numeric(rows[i][1])]
        mask == [i \in 1..Len(rows) |->
                    series[i].num /\ series[i].halves >= 2 * cut.value]
    IN  IF rows = <<>> THEN Raised("EmptyDataError", 0, 1)
        ELSE IF ~cut.ok THEN Raised("ValueError: invalid literal for int()", 0, 1)
        ELSE Returned(JNum(IntOfHalves(SumHalves(SelectSeq2(series, mask)))), 0, 1)

\* reply: the server's answer to client.get(csv_url)
solve_audio_csv_question(page, url, reply) ==
    LET csv_tag == FindCsvTag(page)
    IN  IF ~csv_tag.present
        THEN Raised("ValueError: CSV link not found", 0, 0)
        ELSE IF ~reply.success
        THEN Raised("HTTPStatusError", 0, 1)
        ELSE csv_answer(reply.rows, page.cutoff)

----------------------------------------------------------------------------
(* The world solve_quiz_chain runs in: urls, rendered pages, downloads and *)
(* submission responses                                                    *)

U_a == S_http \o <<":","/","/","a","/","q">>
U_b == S_https \o <<":","/","/","b",":","8","/","q","?","x","#","f">>

StartUrls == {S_empty, U_a}
NextUrls == {U_a, U_b}
Emails == {"e1@x.org", "e2@x.org"}
Secrets == {"s3cret"}
StartTimes == {1000}

\* seconds the clock may advance while the chain awaits a collaborator
Deltas == {0, 90, 180}
MaxElapsed == 360   \* the clock is not followed further than this after start_time

Lnk(h, q) == [href |-> Element(h), in_question |-> q]
Page(t, o, l, c) == [text |-> t, origin |-> o, links |-> l, cutoff |-> c]

H_d == <<"/","d">>
H_csv == <<"/","d">> \o S_csv
H_CSV == <<"/","d",".","C","S","V">>

P_generic == Page(<<"h","i">>, NoElement, <<>>, NoElement)
P_origin == Page(<<"h","i">>,
                 Element(<<" ">> \o S_http \o <<":","/","/","o","/","/"," ">>),
                 <<>>, NoElement)
P_scrape == Page(<<"S","c","r","a","p","e"," ">> \o H_d, NoElement,
                 <<Lnk(H_d, TRUE)>>, NoElement)
P_scrape_nolink == Page(S_demo_scrape_data, NoElement, <<Lnk(H_d, FALSE)>>, NoElement)
P_scrape_csv == Page(S_scrape \o H_csv, NoElement,
                     <<Lnk(H_csv, TRUE)>>, Element(<<"1","0">>))
P_audio == Page(H_csv, NoElement, <<Lnk(H_d, FALSE), Lnk(H_csv, FALSE)>>,
                Element(<<" ","1","0"," ">>))
P_audio_nocutoff == Page(<<"A","U","D","I","O">> \o H_csv, NoElement,
                         <<Lnk(H_csv, FALSE)>>, NoElement)
P_audio_nolink == Page(<<"A","u","d","i","o">> \o H_CSV, NoElement,
                       <<Lnk(H_CSV, FALSE)>>, NoElement)
P_audio_badcutoff == Page(H_csv, NoElement, <<Lnk(H_csv, FALSE)>>,
                          Element(<<"x">>))

\* what fetch_rendered_html_sync may return for a quiz page
Pages == {P_generic, P_origin, P_scrape, P_scrape_nolink, P_scrape_csv,
          P_audio, P_audio_nocutoff, P_audio_nolink, P_audio_badcutoff}

\* the text of what fetch_rendered_html_sync may return for a data page
DataTexts == {<<"f","o","o","\n","\n","b","a","r","4","2","b","a","z","\n">>,
              <<"n","o","n","e","\n">>,
              <<" ","\n","7"," ","8">>}

Row(c) == <<c>>
CsvReply(ok, rows) == [success |-> ok, rows |-> rows]

\* what the server may answer to client.get(csv_url)
CsvReplies == {CsvReply(FALSE, <<>>),
               CsvReply(TRUE, <<>>),
               CsvReply(TRUE, <<Row(<<"5">>), Row(<<"1","0">>), Row(<<"1","5">>),
                                Row(<<"2","0">>)>>),
               CsvReply(TRUE, <<Row(<<"-","1">>), Row(<<"2">>)>>),
               CsvReply(TRUE, <<<<<<"a","b","c">>, <<"7">>>>,
                                <<<<"2",".","5">>, <<"7">>>>,
                                <<<<"1","0">>, <<"7">>>> >>)}

Body(v) == [json |-> TRUE, value |-> v]
InvalidBody == [json |-> FALSE, value |-> NoValue]

\* response bodies that are JSON objects without a truthy url
FinalObjects == {JObject([correct |-> JBool(TRUE)]),
                 JObject([correct |-> JBool(FALSE), url |-> JNull]),
                 JObject([url |-> JStr(S_empty)]),
                 JObject([url |-> JNum(0), reason |-> JStr(<<"n","o">>)])}

\* response bodies that are JSON objects with a next url
NextObjects == {JObject([correct |-> JBool(TRUE), url |-> JStr(u)]) : u \in NextUrls}

\* response bodies that are valid JSON but no object
NonObjects == {JArray(<<>>), JStr(<<"o","k">>), JNum(1), JBool(TRUE), JNull}

\* response.json(), solver.py:199-203
response_json(body) ==
    IF body.json THEN [ok |-> TRUE, value |-> body.value]
    ELSE [ok |-> FALSE, value |-> NoValue]

----------------------------------------------------------------------------
(* solve_quiz_chain *)

MAX_DURATION_SEC == 180

NoCalls == [render |-> 0, get |-> 0, post |-> 0, bodies |-> 0,
            rendered |-> NoValue, posted |-> NoValue]
NoFetch == [kind |-> "none"]

Elapsed == now - start_time

\* the clock advances by d while the chain awaits
Await(d) ==
    /\ d \in Deltas
    /\ Elapsed + d <= MaxElapsed
    /\ now' = now + d

\* solver.py:149
LoopCondition_inclusive == current_url # <<>> /\ now - start_time <= MAX_DURATION_SEC
LoopCondition_no_url_test == now - start_time < MAX_DURATION_SEC
LoopCondition == current_url # <<>> /\ now - start_time < MAX_DURATION_SEC

\* solver.py:168-174
make_payload_start_url(answer_value) ==
    JObject([email |-> email, secret |-> secret,
             url |-> JStr(start_url), answer |-> answer_value])
make_payload(answer_value) ==
    JObject([email |-> email, secret |-> secret,
             url |-> JStr(current_url), answer |-> answer_value])

Raise(e) ==
    /\ pc' = "raised"
    /\ err' = e

ChainInit ==
    /\ pc = "open"
    /\ start_url \in StartUrls
    /\ email \in Emails
    /\ secret \in Secrets
    /\ start_time \in StartTimes
    /\ now = start_time
    /\ current_url = start_url
    /\ html = NoValue
    /\ submit_url = NoValue
    /\ quiz_type = NoValue
    /\ answer = NoValue
    /\ response = NoValue
    /\ result = NoValue
    /\ retval = NoValue
    /\ err = ""
    /\ calls = NoCalls
    /\ fetched = NoFetch

\* solver.py:147, async with httpx.AsyncClient(timeout=30) as client
OpenClient ==
    /\ pc = "open"
    /\ \E d \in Deltas : Await(d)
    /\ pc' = "loop"
    /\ UNCHANGED <<start_url, email, secret, start_time, current_url, html,
                   submit_url, quiz_type, answer, response, result, retval, err,
                   calls, fetched, fnVars>>

\* solver.py:149 and 216-217
LoopTop ==
    /\ pc = "loop"
    /\ IF LoopCondition
       THEN /\ pc' = "render"
            /\ calls' = [calls EXCEPT !.bodies = @ + 1]
            /\ UNCHANGED retval
       ELSE /\ pc' = "return_timeout"
            /\ retval' = TimeoutResult
            /\ UNCHANGED calls
    /\ UNCHANGED <<start_url, email, secret, start_time, current_url, now, html,
                   submit_url, quiz_type, answer, response, result, err,
                   fetched, fnVars>>

\* solver.py:153-165
FetchPage ==
    /\ pc = "render"
    /\ \E page \in Pages, d \in Deltas :
        /\ Await(d)
        /\ html' = page
        /\ submit_url' = build_submit_url(page, current_url)
        /\ quiz_type' = detect_quiz_type(page.text)
    /\ calls' = [calls EXCEPT !.render = @ + 1, !.rendered = JStr(current_url)]
    /\ pc' = "solve"
    /\ UNCHANGED <<start_url, email, secret, start_time, current_url, answer,
                   response, result, retval, err, fetched, fnVars>>

\* what the chain does with a solver's outcome o, solver.py:178, 183
AfterSolver(o, d, got) ==
    /\ Await(d)
    /\ o.renders + o.gets = 0 => d = 0
    /\ calls' = [calls EXCEPT !.render = @ + o.renders, !.get = @ + o.gets]
    /\ fetched' = IF o.renders + o.gets = 0 THEN NoFetch ELSE got
    /\ IF o.ok
       THEN /\ answer' = o.value
            /\ pc' = "submit"
            /\ UNCHANGED err
       ELSE /\ Raise(o.err)
            /\ UNCHANGED answer

\* solver.py:177-179
SolveScrape ==
    /\ pc = "solve"
    /\ quiz_type = "scrape"
    /\ \E data \in DataTexts, d \in Deltas :
        AfterSolver(solve_scrape_question(html, current_url, data), d,
                    [kind |-> "page", body |-> data])
    /\ UNCHANGED <<start_url, email, secret, start_time, current_url, html,
                   submit_url, quiz_type, response, result, retval, fnVars>>

\* solver.py:182-184
SolveAudio ==
    /\ pc = "solve"
    /\ quiz_type = "audio"
    /\ \E reply \in CsvReplies, d \in Deltas :
        AfterSolver(solve_audio_csv_question(html, current_url, reply), d,
                    [kind |-> "csv", body |-> reply])
    /\ UNCHANGED <<start_url, email, secret, start_time, current_url, html,
                   submit_url, quiz_type, response, result, retval, fnVars>>

\* solver.py:187-190
SolveGeneric ==
    /\ pc = "solve"
    /\ quiz_type \notin {"scrape", "audio"}
    /\ answer' = JStr(S_hello)
    /\ pc' = "submit"
    /\ UNCHANGED <<start_url, email, secret, start_time, current_url, now, html,
                   submit_url, quiz_type, response, result, retval, err, calls,
                   fetched, fnVars>>

\* the bodies the submission server may answer with: it hands out at most
\* MaxIter next urls in one chain
SubmitBodies ==
    {InvalidBody} \cup {Body(v) : v \in FinalObjects \cup NonObjects}
    \cup (IF calls.post < MaxIter THEN {Body(v) : v \in NextObjects} ELSE {})

Submit_within_budget ==
    /\ pc = "submit"
    /\ IF now - start_time >= MAX_DURATION_SEC
       THEN /\ pc' = "return_timeout"
            /\ retval' = TimeoutResult
            /\ UNCHANGED <<now, response, calls>>
       ELSE /\ \E body \in SubmitBodies, d \in Deltas :
                /\ Await(d)
                /\ response' = body
            /\ calls' = [calls EXCEPT !.post = @ + 1,
                                      !.posted = [target |-> submit_url,
                                                  json |-> make_payload(answer)]]
            /\ pc' = "parse"
            /\ UNCHANGED retval
    /\ UNCHANGED <<start_url, email, secret, start_time, current_url, html,
                   submit_url, quiz_type, answer, result, err, fetched,
                   fnVars>>

\* solver.py:193-196
Submit ==
    /\ pc = "submit"
    /\ \E body \in SubmitBodies, d \in Deltas :
        /\ Await(d)
        /\ response' = body
    /\ calls' = [calls EXCEPT !.post = @ + 1,
                              !.posted = [target |-> submit_url,
                                          json |-> make_payload(answer)]]
    /\ pc' = "parse"
    /\ UNCHANGED <<start_url, email, secret, start_time, current_url, html,
                   submit_url, quiz_type, answer, result, retval, err, fetched,
                   fnVars>>

\* solver.py:198-214
HandleResponse ==
    /\ pc = "parse"
    /\ LET parsed == response_json(response)
           next_url == DictGet(parsed.value.v, "url")
       IN  IF ~parsed.ok
           THEN /\ Raise("RuntimeError: Invalid JSON from submit")
                /\ UNCHANGED <<current_url, html, submit_url, quiz_type, answer,
                               response, result, retval, fetched>>
           ELSE IF parsed.value.t # "object"
           THEN /\ Raise("AttributeError: no attribute 'get'")
                /\ result' = parsed.value
                /\ UNCHANGED <<current_url, html, submit_url, quiz_type, answer,
                               response, retval, fetched>>
           ELSE IF ~Truthy(next_url)
           THEN /\ pc' = "return_result"
                /\ result' = parsed.value
                /\ retval' = parsed.value
                /\ UNCHANGED <<current_url, html, submit_url, quiz_type, answer,
                               response, err, fetched>>
           ELSE \* the locals of the iteration are all assigned again before
                \* they are read: the model forgets them here
                /\ pc' = "loop"
                /\ current_url' = next_url.v
                /\ html' = NoValue
                /\ submit_url' = NoValue
                /\ quiz_type' = NoValue
                /\ answer' = NoValue
                /\ response' = NoValue
                /\ result' = NoValue
                /\ fetched' = NoFetch
                /\ UNCHANGED <<retval, err>>
    /\ UNCHANGED <<start_url, email, secret, start_time, now, calls, fnVars>>

Init ==
    /\ ChainInit
    /\ arg = NoValue
    /\ ret = NoValue

Next ==
    \/ OpenClient
    \/ LoopTop
    \/ FetchPage
    \/ SolveScrape
    \/ SolveAudio
    \/ SolveGeneric
    \/ Submit
    \/ HandleResponse

Spec == Init /\ [][Next]_vars

----------------------------------------------------------------------------
(* The pure functions on their own: each specification draws an input,     *)
(* applies the function once and keeps the result in ret                   *)

\* the chain is not running
ChainIdle ==
    /\ start_url = S_empty
    /\ email = ""
    /\ secret = ""
    /\ start_time = 0
    /\ now = 0
    /\ current_url = S_empty
    /\ html = NoValue
    /\ submit_url = NoValue
    /\ quiz_type = NoValue
    /\ answer = NoValue
    /\ response = NoValue
    /\ result = NoValue
    /\ retval = NoValue
    /\ err = ""
    /\ calls = NoCalls
    /\ fetched = NoFetch

\* all concatenations of at most n members of parts
RECURSIVE Concats(_, _)
Concats(parts, n) ==
    IF n = 0 THEN {<<>>}
    ELSE LET shorter == Concats(parts, n - 1)
         IN  shorter \cup {p \o c : p \in shorter, c \in parts}

\* all tuples of at most n members of S
TuplesUpTo(S, n) == UNION {[1..k -> S] : k \in 0..n}

HtmlChunks == {<<"s","c","r">>, <<"a","p","e">>, <<"S","c","R","A","p","E">>,
               <<".","c","s","v">>, <<".","C","s","V">>, <<"c","s","v">>,
               <<"a","u","d","i","o">>, <<"A","u","D","I","O">>, <<"x">>}

HtmlTexts == Concats(HtmlChunks, MaxChunks)

InitClassify ==
    /\ pc = "call"
    /\ ChainIdle
    /\ arg \in HtmlTexts
    /\ ret = ""

Classify ==
    /\ pc = "call"
    /\ ret' = detect_quiz_type(arg)
    /\ pc' = "return"
    /\ UNCHANGED <<chainVars, arg>>

SpecClassify == InitClassify /\ [][Classify]_vars

\* a url written out from its components
UrlParts == [scheme : {S_http, S_https},
             netloc : {<<"a">>, <<"b",":","8">>},
             path : {<<>>, <<"/">>, <<"/","q","/","r">>},
             query : {<<>>, <<"x","=","/">>},
             fragment : {<<>>, <<"f">>}]

UrlText(p) ==
    p.scheme \o <<":","/","/">> \o p.netloc \o p.path
    \o (IF p.query = <<>> THEN <<>> ELSE <<"?">> \o p.query)
    \o (IF p.fragment = <<>> THEN <<>> ELSE <<"#">> \o p.fragment)

OriginChars == {" ", "/", "o"}
OriginElements == {NoElement} \cup {Element(t) : t \in TuplesUpTo(OriginChars, MaxOriginLen)}

InitSubmitUrl ==
    /\ pc = "call"
    /\ ChainIdle
    /\ arg \in {[page |-> Page(<<>>, o, <<>>, NoElement), url |-> UrlText(p), parts |-> p] :
                  o \in OriginElements, p \in UrlParts}
    /\ ret = <<>>

BuildSubmitUrl ==
    /\ pc = "call"
    /\ ret' = build_submit_url(arg.page, arg.url)
    /\ pc' = "return"
    /\ UNCHANGED <<chainVars, arg>>

SpecSubmitUrl == InitSubmitUrl /\ [][BuildSubmitUrl]_vars

CsvCells == {<<"5">>, <<"1","0">>, <<"1","5">>, <<"2","0">>, <<"-","1">>, <<"2">>,
             <<"-","2",".","5">>, <<"n","/","a">>}
CutoffElements == {NoElement, Element(<<"1","0">>), Element(<<"0">>),
                   Element(<<" ","-","3","\n">>)}
Filler == <<"2","0">>

\* a file of one or two columns whose first column is series
CsvRows(series, width) ==
    [i \in 1..Len(series) |-> IF width = 1 THEN <<series[i]>> ELSE <<series[i], Filler>>]

InitCsv ==
    /\ pc = "call"
    /\ ChainIdle
    /\ arg \in {[page |-> Page(H_csv, NoElement, <<Lnk(H_csv, FALSE)>>, c),
                 url |-> U_a,
                 reply |-> CsvReply(TRUE, CsvRows(s, w)),
                 series |-> s] :
                  c \in CutoffElements, s \in TuplesUpTo(CsvCells, MaxRows) \ {<<>>},
                  w \in {1, 2}}
    /\ ret = NoValue

SolveCsv ==
    /\ pc = "call"
    /\ ret' = solve_audio_csv_question(arg.page, arg.url, arg.reply)
    /\ pc' = "return"
    /\ UNCHANGED <<chainVars, arg>>

SpecCsv == InitCsv /\ [][SolveCsv]_vars

----------------------------------------------------------------------------
(* What the claims are stated with *)

Chars(s) == {s[i] : i \in 1..Len(s)}

UpperOf(c) ==
    IF \E i \in 1..26 : LowerLetters[i] = c
    THEN UpperLetters[CHOOSE i \in 1..26 : LowerLetters[i] = c]
    ELSE c

\* marker (given in lower case) occurs in s, each letter in either case
OccursAnyCase(s, marker) ==
    \E i \in 1..Len(s) :
        /\ i + Len(marker) - 1 <= Len(s)
        /\ \A k \in 1..Len(marker) : s[i + k - 1] \in {marker[k], UpperOf(marker[k])}

\* s without its leading and trailing characters of set
RECURSIVE DropLeading(_, _)
DropLeading(s, set) ==
    IF s # <<>> /\ Head(s) \in set THEN DropLeading(Tail(s), set) ELSE s
RECURSIVE DropTrailing(_, _)
DropTrailing(s, set) ==
    IF s # <<>> /\ s[Len(s)] \in set
    THEN DropTrailing(SubSeq(s, 1, Len(s) - 1), set)
    ELSE s
Trimmed(s) == DropTrailing(DropLeading(s, {" ", "\n", "\t", "\r"}), {" ", "\n", "\t", "\r"})

\* the value of each cell and cutoff text of the model, in halves, by table
CellHalves(c) ==
    CASE c = <<"5">> -> 10
      [] c = <<"1","0">> -> 20
      [] c = <<"1","5">> -> 30
      [] c = <<"2","0">> -> 40
      [] c = <<"-","1">> -> -2
      [] c = <<"2">> -> 4
      [] c = <<"-","2",".","5">> -> -5
CellIsNumber(c) == c # <<"n","/","a">>
CutoffValue(el) ==
    CASE el = NoElement -> 0
      [] el = Element(<<"1","0">>) -> 10
      [] el = Element(<<"0">>) -> 0
      [] el = Element(<<" ","-","3","\n">>) -> -3

RECURSIVE SumOver(_, _)
SumOver(series, idx) ==
    IF idx = {} THEN 0
    ELSE LET i == CHOOSE j \in idx : TRUE
         IN  CellHalves(series[i]) + SumOver(series, idx \ {i})

\* the halves of the cells of series that are numbers not below cutoff
ExpectedHalves(series, cutoff) ==
    SumOver(series, {i \in 1..Len(series) :
                        CellIsNumber(series[i]) /\ CellHalves(series[i]) >= 2 * cutoff})

\* q is h/2 with its fraction dropped
IsTruncationOf(q, h) ==
    \/ h >= 0 /\ 2 * q <= h /\ h < 2 * q + 2
    \/ h < 0 /\ 2 * q >= h /\ h > 2 * q - 2

\* the object has no url, or a url that is null, "", 0 or false
UrlFalsy(obj) ==
    \/ "url" \notin DOMAIN obj.v
    \/ obj.v.url \in {JNull, JStr(<<>>), JNum(0), JBool(FALSE)}

\* the object has a url that is a non-empty string
UrlIsNextString(obj) ==
    /\ "url" \in DOMAIN obj.v
    /\ obj.v.url.t = "str"
    /\ obj.v.url.v # <<>>

ExactTimeoutResult ==
    [t |-> "object",
     v |-> [correct |-> [t |-> "bool", v |-> FALSE],
            reason |-> [t |-> "str", v |-> S_timeout_reason]]]

----------------------------------------------------------------------------
(* Claims about the pure functions *)

\* C6: detect_quiz_type returns exactly one of scrape, audio, generic for
\* every HTML text; scrape whenever "scrape" occurs in any letter case, even
\* beside ".csv" or "audio"; audio only when no scrape marker occurs and
\* ".csv" or "audio" does, in any letter case; generic otherwise.
C6_ClassifyPriority ==
    pc = "return" =>
        LET scrape == OccursAnyCase(arg, S_scrape)
            audio == OccursAnyCase(arg, S_csv) \/ OccursAnyCase(arg, S_audio)
        IN  /\ ret \in {"scrape", "audio", "generic"}
            /\ scrape => ret = "scrape"
            /\ (~scrape /\ audio) => ret = "audio"
            /\ (~scrape /\ ~audio) => ret = "generic"
            /\ ret = "audio" => (~scrape /\ audio)

\* an upper-case scrape marker beside a ".csv" marker is classified scrape
C6_Witness ==
    /\ pc = "return"
    /\ ret = "scrape"
    /\ ~Contains(arg, S_scrape)
    /\ OccursAnyCase(arg, S_csv)

\* C7: solve_audio_csv_question returns the sum, its fraction dropped, of
\* exactly the first-column values >= the cutoff (a value equal to the cutoff
\* counts): [5,10,15,20] with cutoff 10 gives 45, [-1,2] with cutoff 0 gives
\* 2; a cell that is no number is left out and nothing is raised; a page
\* without cutoff element has cutoff 0.
C7_CsvSum ==
    pc = "return" =>
        /\ ret.ok
        /\ ret.value.t = "num"
        /\ IsTruncationOf(ret.value.v,
                          ExpectedHalves(arg.series, CutoffValue(arg.page.cutoff)))
        /\ (/\ arg.series = <<<<"5">>, <<"1","0">>, <<"1","5">>, <<"2","0">>>>
            /\ arg.page.cutoff = Element(<<"1","0">>)) => ret.value.v = 45
        /\ (/\ arg.series = <<<<"-","1">>, <<"2">>>>
            /\ arg.page.cutoff \in {Element(<<"0">>), NoElement}) => ret.value.v = 2
        /\ (/\ arg.series = <<<<"n","/","a">>, <<"1","0">>>>
            /\ arg.page.cutoff = Element(<<"1","0">>)) => ret.value.v = 10

\* the series of the first example, in a file of two columns
C7_Witness ==
    /\ pc = "return"
    /\ arg.series = <<<<"5">>, <<"1","0">>, <<"1","5">>, <<"2","0">>>>
    /\ arg.page.cutoff = Element(<<"1","0">>)
    /\ Len(arg.reply.rows[1]) = 2
    /\ ret.value = JNum(45)

\* C8: build_submit_url returns a string that ends in "/submit" with no "/"
\* right before it, however many slashes end the origin; the origin is the
\* trimmed text of the .origin element when there is one and that text is
\* not empty, and otherwise scheme://netloc of current_url, its path, query
\* and fragment dropped.
C8_SubmitUrl ==
    pc = "return" =>
        LET n == Len(ret)
            text == Trimmed(arg.page.origin.text)
            origin == IF arg.page.origin.present /\ text # <<>>
                      THEN text
                      ELSE arg.parts.scheme \o <<":","/","/">> \o arg.parts.netloc
        IN  /\ n >= 7
            /\ SubSeq(ret, n - 6, n) = <<"/","s","u","b","m","i","t">>
            /\ n > 7 => ret[n - 7] # "/"
            /\ ret = DropTrailing(origin, {"/"}) \o <<"/","s","u","b","m","i","t">>

\* an .origin text with blanks around it and two slashes at its end
C8_Witness ==
    /\ pc = "return"
    /\ arg.page.origin = Element(<<" ","o","/","/">>)
    /\ arg.parts.path # <<>>
    /\ ret = <<"o","/","s","u","b","m","i","t">>

----------------------------------------------------------------------------
(* Claims about solve_quiz_chain *)

D_example == <<"f","o","o","\n","\n","b","a","r","4","2","b","a","z","\n">>
D_seven == <<" ","\n","7"," ","8">>

\* C1: when the submission response parses to a JSON object whose url is
\* absent or falsy, the chain ends in that same step: no render, download or
\* POST follows, and the value returned is that parsed object, unchanged.
C1_FalsyUrlEndsChain ==
    [][/\ pc # "return_result"
       /\ (/\ pc = "parse"
           /\ response.json
           /\ response.value.t = "object"
           /\ UrlFalsy(response.value))
          => (/\ pc' = "return_result"
              /\ retval' = response.value
              /\ calls' = calls
              /\ err' = "")]_vars

\* the chain returned an object that carries a url, the empty string
C1_Witness ==
    /\ pc = "return_result"
    /\ "url" \in DOMAIN retval.v
    /\ retval.v.url = JStr(<<>>)
    /\ calls.post = 2

\* C2: with an empty start_url the result is exactly
\* {correct: false, reason: "timeout or missing url"} and no page is
\* rendered, no solver runs, no GET and no POST is made.
C2_EmptyStartUrl ==
    start_url = <<>> =>
        /\ pc \in {"open", "loop", "return_timeout"}
        /\ calls.render = 0
        /\ calls.get = 0
        /\ calls.post = 0
        /\ calls.bodies = 0
        /\ answer = NoValue
        /\ pc = "return_timeout" => retval = ExactTimeoutResult
        /\ pc # "return_timeout" => retval = NoValue

C2_Witness ==
    /\ start_url = <<>>
    /\ pc = "return_timeout"
    /\ retval = ExactTimeoutResult

\* C3: at the top of every iteration, when 180 s or more have passed since
\* the chain started, no iteration body runs and the chain returns the
\* timeout result, although current_url is a non-empty url.
C3_TimeoutAtLoopTop ==
    [][(pc = "loop" /\ now - start_time >= 180)
          => (/\ pc' = "return_timeout"
              /\ retval' = ExactTimeoutResult
              /\ calls' = calls
              /\ current_url' = current_url)]_vars

\* the server handed out a next url and the chain still ended by the clock
C3_Witness ==
    /\ pc = "return_timeout"
    /\ current_url = U_b
    /\ calls.post >= 1
    /\ now - start_time = 180

QuestionLinkMissing(page) == \A i \in 1..Len(page.links) : ~page.links[i].in_question
CsvLinkMissing(page) ==
    \A i \in 1..Len(page.links) : ~EndsWith(page.links[i].href.text, <<".","c","s","v">>)
NoDigit(text) == Chars(text) \cap {"0","1","2","3","4","5","6","7","8","9"} = {}

\* C4: a failure inside an iteration ends the chain: when the scrape solver
\* finds no question anchor or no digits, or the CSV solver finds no CSV
\* anchor or gets a non-success status, no POST is made in that iteration;
\* when the submission response is not JSON the chain is aborted; each time
\* an error leaves the chain, nothing is returned and no step follows.
C4_FailureIsFinal ==
    [][/\ pc # "raised"
       /\ (/\ pc = "solve"
           /\ \/ quiz_type = "scrape" /\ QuestionLinkMissing(html)
              \/ quiz_type = "scrape" /\ fetched'.kind = "page" /\ NoDigit(fetched'.body)
              \/ quiz_type = "audio" /\ CsvLinkMissing(html)
              \/ quiz_type = "audio" /\ fetched'.kind = "csv" /\ ~fetched'.body.success)
          => (/\ pc' = "raised"
              /\ err' # ""
              /\ retval' = NoValue
              /\ calls'.post = calls.post
              /\ calls'.post = calls.bodies - 1)
       /\ (pc = "parse" /\ ~response.json)
          => (/\ pc' = "raised"
              /\ err' # ""
              /\ retval' = NoValue
              /\ calls' = calls)
       /\ pc' = "raised" => (retval' = NoValue /\ err' # "")]_vars

\* the download of the second iteration failed, after one POST
C4_Witness ==
    /\ pc = "raised"
    /\ calls.bodies = 2
    /\ calls.post = 1
    /\ fetched.kind = "csv"
    /\ ~fetched.body.success

\* C5: a submission response that is valid JSON makes the chain go on only
\* when it is an object with a non-empty string url; a parsed response of
\* any other shape (an object without url, an array, a string, a number, a
\* boolean, null) is returned as it is and no error is raised.
C5_AnyJsonPassedThrough ==
    [][(pc = "parse" /\ response.json)
          => IF response.value.t = "object" /\ UrlIsNextString(response.value)
             THEN pc' = "loop"
             ELSE pc' = "return_result" /\ retval' = response.value]_vars

\* what holds of the POSTs at each position of the chain
C9_State ==
    /\ pc \in {"open", "loop", "return_result", "return_timeout", "parse"}
          => calls.post = calls.bodies
    /\ pc \in {"render", "solve", "submit"} => calls.post = calls.bodies - 1
    /\ pc = "parse" =>
        LET p == calls.posted.json.v
        IN  /\ calls.posted.json.t = "object"
            /\ DOMAIN p = {"email", "secret", "url", "answer"}
            /\ p.email = email
            /\ p.secret = secret
            /\ p.url = calls.rendered
            /\ p.url = JStr(current_url)
            /\ p.answer = answer
            /\ calls.posted.target = submit_url
            /\ IF OccursAnyCase(html.text, S_scrape)
               THEN /\ fetched.kind = "page"
                    /\ p.answer.t = "str"
                    /\ fetched.body = D_example => p.answer.v = <<"4","2">>
                    /\ fetched.body = D_seven => p.answer.v = <<"7">>
               ELSE IF OccursAnyCase(html.text, S_csv) \/ OccursAnyCase(html.text, S_audio)
               THEN /\ fetched.kind = "csv"
                    /\ p.answer.t = "num"
               ELSE /\ fetched.kind = "none"
                    /\ p.answer = JStr(<<"h","e","l","l","o","-","f","r","o","m","-",
                                         "a","g","e","n","t">>)

\* C9: every iteration makes exactly one POST, after its solver returned;
\* the payload's url is the url rendered at the start of that iteration,
\* its email and secret are the arguments of solve_quiz_chain and its answer
\* is what the solver of the page's type produced ("hello-from-agent" for a
\* generic page); across iterations only current_url changes, and only to
\* the url of the latest submission response.
C9_OnePostPerIteration ==
    [][/\ C9_State
       /\ C9_State'
       /\ calls'.post \in {calls.post, calls.post + 1}
       /\ calls'.post # calls.post => (pc = "submit" /\ pc' = "parse")
       /\ email' = email
       /\ secret' = secret
       /\ start_url' = start_url
       /\ start_time' = start_time
       /\ current_url' # current_url
          => (/\ pc = "parse"
              /\ response.value.v.url = JStr(current_url'))]_vars

\* the POST of the second iteration, for another url than the first
C9_Witness ==
    /\ pc = "parse"
    /\ calls.post = 2
    /\ current_url # start_url
    /\ quiz_type = "audio"
    /\ calls.posted.json.v.url = JStr(U_b)

\* C10: the time budget does not interrupt an iteration: the timeout result
\* is returned from the loop top only, an iteration that has started goes
\* on to its next step whatever the clock says, and its response is honoured:
\* without a url the chain returns that response even after 180 s, with a
\* url the chain goes to the loop top, which then ends it.
C10_NotPreemptive ==
    [][/\ pc' = "return_timeout" => pc = "loop"
       /\ (pc \in {"render", "solve", "submit"} /\ now - start_time >= 180)
          => pc' \in {"solve", "submit", "parse", "raised"}
       /\ (/\ pc = "parse"
           /\ now - start_time >= 180
           /\ response.json
           /\ response.value.t = "object")
          => IF UrlFalsy(response.value)
             THEN pc' = "return_result" /\ retval' = response.value
             ELSE pc' = "loop" /\ now' - start_time' >= 180]_vars

\* a response without url is returned after the clock passed the budget
C10_Witness ==
    /\ pc = "return_result"
    /\ now - start_time > 180
    /\ retval = JObject([correct |-> JBool(TRUE)])
    /\ calls.bodies = 1

====
